---- MODULE Spec2Model ----
(***************************************************************************)
(* A model of tracer's WebsitePool (src/tracer/src/models/websitepool.py): *)
(* the collection operations over a heap of Website objects and shared     *)
(* lists, and the concurrent dispatch-and-collect generator                *)
(* start_requests with its asyncio queue, gather future and probe tasks.   *)
(***************************************************************************)
EXTENDS Integers, Sequences, FiniteSets, TLC

\* ------------------------------------------------------------------ bounds
\* Website objects that may exist at once (callers' and deep copies).
MaxObjs == 2
\* Longest list of sites a pool is let to grow to.
MaxLen == 2
\* Largest pool a dispatch round is started on.
MaxProbes == 3
MaxRoundSites == 1

VARIABLES
    heap,       \* Website objects: heap[o] = [name |-> identity, user |-> username]
    lists,      \* list objects: lists[l] = sequence of Website object ids
    pools,      \* WebsitePool objects: [sites |-> list id, name, allow]
    ext,        \* the running call of extend (its loop position), or NoExt
    last,       \* what the last pool operation was and how it ended
    hist,       \* history: the pool's list when start_requests was called,
                \* kept until the first pull, whether it had changed by then,
                \* and, where hist.track is set, how the second pool was made
                \* and whether remove ran since
    gen,        \* the pool start_requests was called on (0: not called)
    pc,         \* where the async generator stands
    launched,   \* the sites whose send_request coroutine was created
    probe,      \* probe[i]: state of the task of launched[i]
    done_cbs,   \* finished tasks whose gather done-callback is scheduled
    nfinished,  \* gather's count of finished children
    requests,   \* state of the future returned by asyncio.gather
    results,    \* the asyncio.Queue of the round
    pushed,     \* history: probes in the order they called results.put
    yielded,    \* history: what the generator yielded, in order
    second      \* a second call of start_requests on the pool: its generator,
                \* tasks, gather future, queue and what it yielded

poolVars == <<heap, lists, pools, ext, last, hist>>
roundVars == <<gen, pc, launched, probe, done_cbs, nfinished, requests, results, pushed, yielded,
               second>>
vars == <<heap, lists, pools, ext, last, hist, gen, pc, launched, probe, done_cbs, nfinished,
          requests, results, pushed, yielded, second>>

\* The caller holds up to two pools: a pool and another one (a copy of it,
\* or the source of an extend). Each has a list object of its own or shares.
PoolIds == {1, 2}
ListIds == PoolIds
\* Two Website identities: enough for equal and for unequal sites.
Names == {1, 2}
\* Usernames (the search parameter of a site).
Users == {"u", "v"}
\* The absent name (Python's None), and a value that is no Website.
None == "None"
NotAWebsite == 0
\* A value that is no WebsitePool.
NotAPool == 0
NoExt == [active |-> FALSE]
NoOp == [op |-> "none", pool |-> 0, arg |-> 0, name |-> 0, err |-> "ok", before |-> <<>>]
NoHist == [track |-> FALSE, copied |-> "none", removed |-> FALSE, atcall |-> <<>>, moved |-> FALSE]

Range(s) == {s[i] : i \in DOMAIN s}

\* ------------------------------------------------------ the collection
\* isinstance(name, str), isinstance(website, Website), isinstance(pool, WebsitePool)
IsAnything(x) == TRUE
IsStr(x) == x # None
IsWebsite(H, w) == w \in DOMAIN H
IsPool(q) == q \in DOMAIN pools

\* Website equality: two sites are equal when their identities match.
SiteEq(H, a, b) == H[a].name = H[b].name

\* `website in self` over a list s: a Website equal to some member.
Contains(s, H, w) == IsWebsite(H, w) /\ \E k \in DOMAIN s : SiteEq(H, s[k], w)

\* The list after add(website) for a Website: unchanged when duplicates are
\* rejected and an equal site is a member, else the website appended.
AddSiteNoCheck(s, H, allow, w) == Append(s, w)
AddSitePrepend(s, H, allow, w) == IF ~allow /\ Contains(s, H, w) THEN s ELSE <<w>> \o s
AddSite(s, H, allow, w) == IF ~allow /\ Contains(s, H, w) THEN s ELSE Append(s, w)

\* The constructor's loop `for site in sites: self.add(site)` from list s on.
RECURSIVE AddAll(_, _, _, _)
AddAll(s, H, allow, args) ==
    IF args = <<>> THEN s
    ELSE AddAll(AddSite(s, H, allow, Head(args)), H, allow, Tail(args))

\* A list id no pool other than p refers to: a new list object for p.
Shared(p) == \E q \in DOMAIN pools : q # p /\ pools[q].sites = pools[p].sites
FreeList == CHOOSE l \in ListIds : \A q \in DOMAIN pools : pools[q].sites # l
NewListFor(p) == IF Shared(p) THEN FreeList ELSE pools[p].sites

\* The sites of pool p, in order.
Sites(p) == lists[pools[p].sites]

Op(op, p, arg, name, err, before) ==
    [op |-> op, pool |-> p, arg |-> arg, name |-> name, err |-> err, before |-> before]

Idle == ~ext.active

\* A caller creates a Website with an identity.
CreateSite(name) ==
    /\ Idle
    /\ Len(heap) < MaxObjs
    /\ heap' = Append(heap, [name |-> name, user |-> "u"])
    /\ last' = Op("website", 0, 0, name, "ok", <<>>)
    /\ UNCHANGED <<lists, pools, ext, hist>>
    /\ UNCHANGED roundVars

\* WebsitePool(*args, name=name, allow_duplicates=allow)
Construct(args, name, allow) ==
    /\ Idle
    /\ Len(pools) < Cardinality(PoolIds)
    /\ IF ~IsStr(name) \/ \E k \in DOMAIN args : ~IsWebsite(heap, args[k])
       THEN /\ last' = Op("init", 0, 0, name, "TypeError", <<>>)
            /\ UNCHANGED <<lists, pools>>
       ELSE /\ pools' = Append(pools, [sites |-> FreeList, name |-> name, allow |-> allow])
            /\ lists' = [lists EXCEPT ![FreeList] = AddAll(<<>>, heap, allow, args)]
            /\ last' = Op("init", Len(pools) + 1, 0, name, "ok", <<>>)
    /\ UNCHANGED <<heap, ext, hist>>
    /\ UNCHANGED roundVars

\* pool.set_name(name)
SetName(p, name) ==
    /\ Idle
    /\ IsPool(p)
    /\ IF ~IsStr(name)
       THEN /\ last' = Op("set_name", p, 0, name, "TypeError", <<>>)
            /\ UNCHANGED pools
       ELSE /\ pools' = [pools EXCEPT ![p].name = name]
            /\ last' = Op("set_name", p, 0, name, "ok", <<>>)
    /\ UNCHANGED <<heap, lists, ext, hist>>
    /\ UNCHANGED roundVars

\* for site in self.sites: site.set_username(username)
SetUsernamesEverywhere(H, s, u) == [o \in DOMAIN H |-> [H[o] EXCEPT !.user = u]]
SetUsernames(H, s, u) ==
    [o \in DOMAIN H |-> IF o \in Range(s) THEN [H[o] EXCEPT !.user = u] ELSE H[o]]

\* pool.set_username(username): the type check, then every site of the pool
\* gets the username.
SetUsername(p, u) ==
    /\ Idle
    /\ IsPool(p)
    /\ IF ~IsStr(u)
       THEN /\ last' = Op("set_username", p, u, 0, "TypeError", <<>>)
            /\ UNCHANGED heap
       ELSE /\ heap' = SetUsernames(heap, Sites(p), u)
            /\ last' = Op("set_username", p, u, 0, "ok", <<>>)
    /\ UNCHANGED <<lists, pools, ext, hist>>
    /\ UNCHANGED roundVars

\* pool.add(website)
Add(p, w) ==
    /\ Idle
    /\ IsPool(p)
    /\ IF ~IsWebsite(heap, w)
       THEN /\ last' = Op("add", p, w, 0, "TypeError", Sites(p))
            /\ UNCHANGED lists
       ELSE /\ Len(AddSite(Sites(p), heap, pools[p].allow, w)) <= MaxLen
            /\ lists' = [lists EXCEPT ![pools[p].sites] = AddSite(Sites(p), heap, pools[p].allow, w)]
            /\ last' = Op("add", p, w, heap[w].name, "ok", Sites(p))
    /\ UNCHANGED <<heap, pools, ext, hist>>
    /\ UNCHANGED roundVars

\* The predicates handed to remove and get: where(w) is "w's identity is
\* in S".
Where(H, S, o) == H[o].name \in S

\* list(filter(lambda w: not where(w), self.sites))
RemoveFirstOnly(s, H, S) ==
    IF \E k \in DOMAIN s : Where(H, S, s[k])
    THEN LET k == CHOOSE j \in DOMAIN s : Where(H, S, s[j]) /\ \A i \in 1..(j - 1) : ~Where(H, S, s[i])
         IN SubSeq(s, 1, k - 1) \o SubSeq(s, k + 1, Len(s))
    ELSE s
RemoveSites(s, H, S) == SelectSeq(s, LAMBDA o : ~Where(H, S, o))

\* tuple(filter(where, self))
GetSites(s, H, S) == SelectSeq(s, LAMBDA o : Where(H, S, o))

\* pool.remove(where): the pool gets a new list of the sites that do not
\* satisfy where.
Remove(p, S) ==
    /\ Idle
    /\ IsPool(p)
    /\ LET kept == RemoveSites(Sites(p), heap, S)
           l == NewListFor(p)
       IN /\ lists' = [lists EXCEPT ![l] = kept]
          /\ pools' = [pools EXCEPT ![p].sites = l]
    /\ last' = IF hist.track THEN Op("remove", p, S, 0, "ok", Sites(p))
                             ELSE Op("remove", p, 0, 0, "ok", <<>>)
    /\ hist' = IF hist.copied = "none" THEN hist ELSE [hist EXCEPT !.removed = TRUE]
    /\ UNCHANGED <<heap, ext>>
    /\ UNCHANGED roundVars

\* pool.get(where): the sites that satisfy where, as a tuple.
Get(p, S) ==
    /\ Idle
    /\ IsPool(p)
    /\ last' = [op |-> "get", pool |-> p, arg |-> S, name |-> 0, err |-> "ok",
                before |-> Sites(p), ret |-> GetSites(Sites(p), heap, S)]
    /\ UNCHANGED <<heap, lists, pools, ext, hist>>
    /\ UNCHANGED roundVars

\* copy.copy(pool): a new pool with the same attribute values, so the same
\* list object.
Copy(p) ==
    /\ Idle
    /\ IsPool(p)
    /\ Len(pools) < Cardinality(PoolIds)
    /\ pools' = Append(pools, pools[p])
    /\ last' = Op("copy", Len(pools) + 1, 0, 0, "ok", <<>>)
    /\ hist' = IF hist.track THEN [hist EXCEPT !.copied = "shallow", !.removed = FALSE] ELSE hist
    /\ UNCHANGED <<heap, lists, ext>>
    /\ UNCHANGED roundVars

\* The distinct members of s in the order of their first occurrence.
RECURSIVE Firsts(_)
Firsts(s) ==
    IF s = <<>> THEN <<>>
    ELSE LET f == Firsts(SubSeq(s, 1, Len(s) - 1))
         IN IF s[Len(s)] \in Range(f) THEN f ELSE Append(f, s[Len(s)])

\* copy.deepcopy(v, memo) of the list of sites: a list of the copies, the
\* copy of the k-th distinct site object being the k-th new object.
DeepCopyListOnly(H, s) == s
DeepCopySites(H, s) ==
    LET f == Firsts(s)
    IN [k \in DOMAIN s |-> Len(H) + (CHOOSE j \in DOMAIN f : f[j] = s[k])]

\* copy.deepcopy(pool): a new pool with a new list of copies of the sites,
\* one copy per site object (the memo).
DeepCopy(p) ==
    /\ Idle
    /\ IsPool(p)
    /\ Len(pools) < Cardinality(PoolIds)
    /\ LET f == Firsts(Sites(p))
       IN /\ Len(heap) + Len(f) <= MaxObjs
          /\ heap' = heap \o [k \in DOMAIN f |-> heap[f[k]]]
          /\ lists' = [lists EXCEPT ![FreeList] = DeepCopySites(heap, Sites(p))]
          /\ pools' = Append(pools, [pools[p] EXCEPT !.sites = FreeList])
    /\ last' = Op("deepcopy", Len(pools) + 1, 0, 0, "ok", <<>>)
    /\ hist' = IF hist.track THEN [hist EXCEPT !.copied = "deep", !.removed = FALSE] ELSE hist
    /\ UNCHANGED ext
    /\ UNCHANGED roundVars

\* pool.extend(other, _deepcopy): the type check, and the loop over the
\* list of the other pool begins.
ExtendStart(p, q, deep) ==
    /\ Idle
    /\ IsPool(p)
    /\ IF ~IsPool(q)
       THEN /\ last' = Op("extend", p, q, 0, "TypeError", <<>>)
            /\ UNCHANGED ext
       ELSE /\ ext' = [active |-> TRUE, dst |-> p, src |-> pools[q].sites, i |-> 1, deep |-> deep,
                        n |-> Len(Sites(q))]
            /\ last' = Op("extend", p, q, 0, "running", <<>>)
    /\ UNCHANGED <<heap, lists, pools, hist>>
    /\ UNCHANGED roundVars

\* copy.deepcopy(site) if _deepcopy else site: the next new object, or the
\* site itself.
ImportedSiteItself(H, site, deep) == site
ImportedSite(H, site, deep) == IF deep THEN Len(H) + 1 ELSE site

\* One turn of extend's loop: self.add(copy.deepcopy(site) if _deepcopy else
\* site) for the next site of the source list as it is now. A copy that add
\* refuses is dropped.
ExtendStep ==
    /\ ext.active
    /\ ext.i <= Len(lists[ext.src])
    /\ LET site == lists[ext.src][ext.i]
           w == ImportedSite(heap, site, ext.deep)
           H == IF ext.deep THEN Append(heap, heap[site]) ELSE heap
           before == Sites(ext.dst)
           after == AddSite(before, H, pools[ext.dst].allow, w)
       IN /\ Len(after) <= MaxLen
          /\ Len(H) <= MaxObjs \/ after = before
          /\ heap' = IF after = before THEN heap ELSE H
          /\ lists' = [lists EXCEPT ![pools[ext.dst].sites] = after]
          /\ last' = Op("add", ext.dst, w, heap[site].name, "ok", before)
    /\ ext' = [ext EXCEPT !.i = ext.i + 1]
    /\ UNCHANGED <<pools, hist>>
    /\ UNCHANGED roundVars

\* The source list is exhausted: extend returns.
ExtendEnd ==
    /\ ext.active
    /\ ext.i > Len(lists[ext.src])
    /\ ext' = NoExt
    /\ last' = Op("extend", ext.dst, ext.dst, 0, "ok", <<>>)
    /\ UNCHANGED <<heap, lists, pools, hist>>
    /\ UNCHANGED roundVars

\* ------------------------------------------------------- the asyncio pieces
\* asyncio.Queue is first in, first out: put appends, get takes the head.
QueuePutLifo(q, x) == <<x>> \o q
QueuePut(q, x) == Append(q, x)

\* asyncio.gather(*coros): with no awaitable the future is done at once.
Gather(n) == IF n = 0 THEN "result" ELSE "pending"

\* gather's done-callback of one child (return_exceptions is False): the
\* first child exception completes the outer future; otherwise it completes
\* when every child has finished.
GatherOnDone(req, st, nfin, n) ==
    IF req # "pending" THEN req
    ELSE IF st = "faulted" THEN "exception"
    ELSE IF nfin = n THEN "result"
    ELSE "pending"

\* requests.done()
Done(req) == req \in {"result", "exception"}

\* The loop condition of start_requests, negated: the loop is left when the
\* queue is empty and the gather future is done.
LoopExitOnResultOnly(q, req) == q = <<>> /\ req = "result"
LoopExitIgnoringQueue(q, req) == Done(req)
LoopExit(q, req) == q = <<>> /\ Done(req)

\* `except Exception` around the wait: does it catch this exception?
CatchesNothing(exc) == FALSE
Catches(exc) == exc \in {"TimeoutError", "Exception"}

\* Where the generator goes when it re-evaluates the loop condition.
LoopCheck(q, req) == IF LoopExit(q, req) THEN "exhausted" ELSE "wait"

\* Closing or dropping the generator: nothing in it cancels the tasks.
OnCloseCancel(pr) == [i \in DOMAIN pr |-> IF pr[i] \in {"running", "pushed"} THEN "cancelled" ELSE pr[i]]
OnClose(pr) == pr

\* ----------------------------------------------------------- the dispatch
\* The positions of the launched coroutines in the list handed to gather.
ProbeIds == 1..MaxProbes

\* pool.start_requests(session, timeout): an async generator object; its
\* body does not run before the first pull.
StartRequests(p) ==
    /\ pc = "none"
    /\ p \in DOMAIN pools
    /\ gen' = p
    /\ pc' = "idle"
    /\ hist' = [hist EXCEPT !.atcall = Sites(p)]
    /\ UNCHANGED <<launched, probe, done_cbs, nfinished, requests, results, pushed, yielded>>
    /\ UNCHANGED <<heap, lists, pools, ext, last, second>>

\* [site.send_request(...) for site in self]: the sites of the list as it is
\* when the comprehension runs, whatever it was when the generator was made.
SitesAtCall(now, atcall) == atcall
SitesToRequest(now, atcall) == now

\* The first pull: the queue, one coroutine per site of the pool as it is
\* now, the gather future, and the first evaluation of the loop condition.
FirstPull ==
    /\ pc = "idle"
    /\ LET sites == SitesToRequest(lists[pools[gen].sites], hist.atcall)
           n == Len(sites)
       IN /\ launched' = sites
          /\ probe' = [i \in 1..n |-> "running"]
          /\ requests' = Gather(n)
          /\ results' = <<>>
          /\ pc' = LoopCheck(<<>>, Gather(n))
    /\ hist' = [hist EXCEPT !.atcall = <<>>, !.moved = (hist.atcall # lists[pools[gen].sites])]
    /\ UNCHANGED <<gen, done_cbs, nfinished, pushed, yielded>>
    /\ UNCHANGED <<heap, lists, pools, ext, last, second>>

\* wait_for(results.get(), 0.25) returns an item, which is yielded.
WaitGet ==
    /\ pc = "wait"
    /\ results # <<>>
    /\ yielded' = Append(yielded, Head(results))
    /\ results' = Tail(results)
    /\ pc' = "yielded"
    /\ UNCHANGED <<gen, launched, probe, done_cbs, nfinished, requests, pushed>>
    /\ UNCHANGED <<poolVars, second>>

\* The wait expires on an empty queue: TimeoutError, caught, and the loop
\* condition is evaluated again.
WaitTimeout ==
    /\ pc = "wait"
    /\ results = <<>>
    /\ pc' = IF Catches("TimeoutError") THEN LoopCheck(results, requests) ELSE "raised"
    /\ UNCHANGED <<gen, launched, probe, done_cbs, nfinished, requests, results, pushed, yielded>>
    /\ UNCHANGED <<poolVars, second>>

\* The caller pulls again: the generator resumes after its yield.
Resume ==
    /\ pc = "yielded"
    /\ pc' = LoopCheck(results, requests)
    /\ UNCHANGED <<gen, launched, probe, done_cbs, nfinished, requests, results, pushed, yielded>>
    /\ UNCHANGED <<poolVars, second>>

\* The caller stops iterating (leaves its async for).
StopIterating ==
    /\ pc = "yielded"
    /\ pc' = "abandoned"
    /\ probe' = OnClose(probe)
    /\ UNCHANGED <<gen, launched, done_cbs, nfinished, requests, results, pushed, yielded>>
    /\ UNCHANGED <<poolVars, second>>

\* A probe calls its callback, results.put, with its Result.
ProbeResult(i) ==
    /\ i \in DOMAIN probe
    /\ probe[i] = "running"
    /\ probe' = [probe EXCEPT ![i] = "pushed"]
    /\ results' = QueuePut(results, i)
    /\ pushed' = Append(pushed, i)
    /\ UNCHANGED <<gen, pc, launched, done_cbs, nfinished, requests, yielded>>
    /\ UNCHANGED <<poolVars, second>>

\* A probe that has reported returns: its task is done.
ProbeReturn(i) ==
    /\ i \in DOMAIN probe
    /\ probe[i] = "pushed"
    /\ probe' = [probe EXCEPT ![i] = "returned"]
    /\ done_cbs' = Append(done_cbs, i)
    /\ UNCHANGED <<gen, pc, launched, nfinished, requests, results, pushed, yielded>>
    /\ UNCHANGED <<poolVars, second>>

\* A probe raises before reporting: its task is done with an exception.
ProbeFault(i) ==
    /\ i \in DOMAIN probe
    /\ probe[i] = "running"
    /\ probe' = [probe EXCEPT ![i] = "faulted"]
    /\ done_cbs' = Append(done_cbs, i)
    /\ UNCHANGED <<gen, pc, launched, nfinished, requests, results, pushed, yielded>>
    /\ UNCHANGED <<poolVars, second>>

\* The event loop runs the gather done-callback of the next finished task.
DoneCallback ==
    /\ done_cbs # <<>>
    /\ done_cbs' = Tail(done_cbs)
    /\ nfinished' = nfinished + 1
    /\ requests' = GatherOnDone(requests, probe[Head(done_cbs)], nfinished + 1, Len(launched))
    /\ UNCHANGED <<gen, pc, launched, probe, results, pushed, yielded>>
    /\ UNCHANGED <<poolVars, second>>

\* ---------------------------------- a second round on the same pool
\* The same generator, run by a second call of start_requests on the pool
\* of the first while the first is anywhere in its course. Each call makes
\* its own queue, and its probes' callback is that queue's put.
NoRound == [pc |-> "none", launched |-> <<>>, probe |-> <<>>, done_cbs |-> <<>>, nfinished |-> 0,
            requests |-> "none", results |-> <<>>, yielded |-> <<>>]

\* results = asyncio.Queue(): the queue of the r-th call is the r-th queue.
QueueOfPool(r) == 1
QueueOfCall(r) == r

\* The Result that the i-th probe of the r-th call hands to its callback.
ResultOf(r, i) == (r - 1) * MaxProbes + i

\* The second call's queue, and the second call's step from its state to
\* rec with its queue becoming q.
SecondQueue == IF QueueOfCall(2) = 1 THEN results ELSE second.results
SecondStep(rec, q) ==
    IF QueueOfCall(2) = 1
    THEN /\ results' = q
         /\ second' = rec
    ELSE /\ second' = [rec EXCEPT !.results = q]
         /\ UNCHANGED results
firstVars == <<gen, pc, launched, probe, done_cbs, nfinished, requests, pushed, yielded>>

SecondStartRequests ==
    /\ second.pc = "none"
    /\ gen \in DOMAIN pools
    /\ second' = [second EXCEPT !.pc = "idle"]
    /\ UNCHANGED <<firstVars, results, poolVars>>

SecondFirstPull ==
    /\ second.pc = "idle"
    /\ LET sites == Sites(gen)
           n == Len(sites)
       IN SecondStep([second EXCEPT !.launched = sites,
                                     !.probe = [i \in 1..n |-> "running"],
                                     !.requests = Gather(n),
                                     !.pc = LoopCheck(<<>>, Gather(n))],
                     IF QueueOfCall(2) = 1 THEN results ELSE <<>>)
    /\ UNCHANGED <<firstVars, poolVars>>

SecondWaitGet ==
    /\ second.pc = "wait"
    /\ SecondQueue # <<>>
    /\ SecondStep([second EXCEPT !.yielded = Append(@, Head(SecondQueue)), !.pc = "yielded"],
                  Tail(SecondQueue))
    /\ UNCHANGED <<firstVars, poolVars>>

SecondWaitTimeout ==
    /\ second.pc = "wait"
    /\ SecondQueue = <<>>
    /\ second' = [second EXCEPT !.pc = IF Catches("TimeoutError")
                                       THEN LoopCheck(SecondQueue, second.requests)
                                       ELSE "raised"]
    /\ UNCHANGED <<firstVars, results, poolVars>>

SecondResume ==
    /\ second.pc = "yielded"
    /\ second' = [second EXCEPT !.pc = LoopCheck(SecondQueue, second.requests)]
    /\ UNCHANGED <<firstVars, results, poolVars>>

SecondStopIterating ==
    /\ second.pc = "yielded"
    /\ second' = [second EXCEPT !.pc = "abandoned", !.probe = OnClose(@)]
    /\ UNCHANGED <<firstVars, results, poolVars>>

SecondProbeResult(i) ==
    /\ i \in DOMAIN second.probe
    /\ second.probe[i] = "running"
    /\ SecondStep([second EXCEPT !.probe[i] = "pushed"], QueuePut(SecondQueue, ResultOf(2, i)))
    /\ UNCHANGED <<firstVars, poolVars>>

SecondProbeReturn(i) ==
    /\ i \in DOMAIN second.probe
    /\ second.probe[i] = "pushed"
    /\ second' = [second EXCEPT !.probe[i] = "returned", !.done_cbs = Append(@, i)]
    /\ UNCHANGED <<firstVars, results, poolVars>>

SecondProbeFault(i) ==
    /\ i \in DOMAIN second.probe
    /\ second.probe[i] = "running"
    /\ second' = [second EXCEPT !.probe[i] = "faulted", !.done_cbs = Append(@, i)]
    /\ UNCHANGED <<firstVars, results, poolVars>>

SecondDoneCallback ==
    /\ second.done_cbs # <<>>
    /\ second' = [second EXCEPT
                    !.done_cbs = Tail(@),
                    !.nfinished = @ + 1,
                    !.requests = GatherOnDone(@, second.probe[Head(second.done_cbs)],
                                              second.nfinished + 1, Len(second.launched))]
    /\ UNCHANGED <<firstVars, results, poolVars>>

RoundInit ==
    /\ gen = 0
    /\ pc = "none"
    /\ launched = <<>>
    /\ probe = <<>>
    /\ done_cbs = <<>>
    /\ nfinished = 0
    /\ requests = "none"
    /\ results = <<>>
    /\ pushed = <<>>
    /\ yielded = <<>>
    /\ second = NoRound

\* A dispatch round on a pool that construction and add have built: n
\* sites with distinct identities or, where duplicates are allowed, also
\* the same site twice.
SeedLists(n, allow) ==
    {[i \in 1..n |-> i]} \cup (IF allow /\ n > 1 THEN {[i \in 1..n |-> 1]} ELSE {})

DispatchInit ==
    /\ \E n \in 0..MaxProbes, allow \in BOOLEAN :
         /\ heap = [o \in 1..n |-> [name |-> o, user |-> "u"]]
         /\ \E s \in SeedLists(n, allow) :
              lists = [l \in ListIds |-> IF l = 1 THEN s ELSE <<>>]
         /\ pools = <<[sites |-> 1, name |-> "pool", allow |-> allow]>>
    /\ ext = NoExt
    /\ last = NoOp
    /\ hist = NoHist
    /\ RoundInit

DispatchNext ==
    \/ \E p \in PoolIds : StartRequests(p)
    \/ FirstPull
    \/ WaitGet
    \/ WaitTimeout
    \/ Resume
    \/ StopIterating
    \/ \E i \in ProbeIds : ProbeResult(i)
    \/ \E i \in ProbeIds : ProbeReturn(i)
    \/ \E i \in ProbeIds : ProbeFault(i)
    \/ DoneCallback

DispatchSpec == DispatchInit /\ [][DispatchNext]_vars

\* A dispatch round whose caller, or another coroutine, adds to the pool
\* and removes from it while the round goes on: the sites exist, the pool
\* starts empty.
MutatingInit ==
    /\ heap = [o \in 1..MaxObjs |-> [name |-> o, user |-> "u"]]
    /\ lists = [l \in ListIds |-> <<>>]
    /\ pools = <<[sites |-> 1, name |-> "pool", allow |-> FALSE]>>
    /\ ext = NoExt
    /\ last = NoOp
    /\ hist = NoHist
    /\ RoundInit

MutatingNext ==
    \/ DispatchNext
    \/ \E w \in 1..MaxObjs : Add(1, w)
    \/ \E S \in SUBSET Names : Remove(1, S)

MutatingSpec == MutatingInit /\ [][MutatingNext]_vars

\* Two dispatch rounds on one pool, the second started at any point of the
\* first: before it, while it runs, or after it ended.
RoundsInit ==
    /\ \E n \in 0..MaxRoundSites :
         /\ heap = [o \in 1..n |-> [name |-> o, user |-> "u"]]
         /\ lists = [l \in ListIds |-> IF l = 1 THEN [i \in 1..n |-> i] ELSE <<>>]
    /\ pools = <<[sites |-> 1, name |-> "pool", allow |-> FALSE]>>
    /\ ext = NoExt
    /\ last = NoOp
    /\ hist = NoHist
    /\ RoundInit

RoundsNext ==
    \/ DispatchNext
    \/ SecondStartRequests
    \/ SecondFirstPull
    \/ SecondWaitGet
    \/ SecondWaitTimeout
    \/ SecondResume
    \/ SecondStopIterating
    \/ \E i \in ProbeIds : SecondProbeResult(i)
    \/ \E i \in ProbeIds : SecondProbeReturn(i)
    \/ \E i \in ProbeIds : SecondProbeFault(i)
    \/ SecondDoneCallback

RoundsSpec == RoundsInit /\ [][RoundsNext]_vars

\* ------------------------------------------------ the pool specification
\* Names a caller may pass as the pool's name, and argument lists of the
\* constructor.
PoolNames == {None, "pool"}
ArgLists == {<<>>} \cup {<<w>> : w \in 0..MaxObjs} \cup {<<v, w>> : v, w \in 1..MaxObjs}

Init ==
    /\ heap = <<>>
    /\ lists = [l \in ListIds |-> <<>>]
    /\ pools = <<>>
    /\ ext = NoExt
    /\ last = NoOp
    /\ hist = NoHist
    /\ RoundInit

Next ==
    \/ \E name \in Names : CreateSite(name)
    \/ \E args \in ArgLists, name \in PoolNames, allow \in BOOLEAN : Construct(args, name, allow)
    \/ \E p \in PoolIds, name \in PoolNames : SetName(p, name)
    \/ \E p \in PoolIds, w \in 0..MaxObjs : Add(p, w)
    \/ \E p \in PoolIds, S \in SUBSET Names : Remove(p, S)
    \/ \E p \in PoolIds : Copy(p)
    \/ \E p \in PoolIds : DeepCopy(p)
    \/ \E p \in PoolIds, q \in PoolIds \cup {NotAPool}, deep \in BOOLEAN : ExtendStart(p, q, deep)
    \/ ExtendStep
    \/ ExtendEnd

Spec == Init /\ [][Next]_vars

\* A second specification, for removal, lookup, usernames and wrong-kind
\* arguments on one pool: the sites exist already, with their own
\* identities and usernames, and one empty pool has been constructed.
SeedHeaps(users) ==
    UNION {{[o \in 1..n |-> [name |-> nm[o], user |-> us[o]]] :
                nm \in [1..n -> Names], us \in [1..n -> users]} : n \in 1..MaxObjs}

OneInit ==
    /\ heap \in SeedHeaps(Users)
    /\ lists = [l \in ListIds |-> <<>>]
    /\ \E allow \in BOOLEAN : pools = <<[sites |-> 1, name |-> "pool", allow |-> allow]>>
    /\ ext = NoExt
    /\ last = NoOp
    /\ hist = [NoHist EXCEPT !.track = TRUE]
    /\ RoundInit

OneNext ==
    \/ \E p \in PoolIds, name \in PoolNames : SetName(p, name)
    \/ \E p \in PoolIds, u \in Users \cup {None} : SetUsername(p, u)
    \/ \E p \in PoolIds, w \in 0..MaxObjs : Add(p, w)
    \/ \E p \in PoolIds, S \in SUBSET Names : Remove(p, S)
    \/ \E p \in PoolIds, S \in SUBSET Names : Get(p, S)
    \/ \E p \in PoolIds, q \in PoolIds \cup {NotAPool}, deep \in BOOLEAN : ExtendStart(p, q, deep)
    \/ ExtendStep
    \/ ExtendEnd

OneSpec == OneInit /\ [][OneNext]_vars

\* A third specification, for copies of a pool: the same start, with
\* shallow and deep copies and a second name.
CopyNames == PoolNames \cup {"other"}

CopyInit ==
    /\ heap \in SeedHeaps({"u"})
    /\ lists = [l \in ListIds |-> <<>>]
    /\ \E allow \in BOOLEAN : pools = <<[sites |-> 1, name |-> "pool", allow |-> allow]>>
    /\ ext = NoExt
    /\ last = NoOp
    /\ hist = [NoHist EXCEPT !.track = TRUE]
    /\ RoundInit

CopyNext ==
    \/ \E p \in PoolIds, name \in CopyNames : SetName(p, name)
    \/ \E p \in PoolIds, u \in Users \cup {None} : SetUsername(p, u)
    \/ \E p \in PoolIds, w \in 0..MaxObjs : Add(p, w)
    \/ \E p \in PoolIds, S \in SUBSET Names : Remove(p, S)
    \/ \E p \in PoolIds : Copy(p)
    \/ \E p \in PoolIds : DeepCopy(p)

CopySpec == CopyInit /\ [][CopyNext]_vars

\* Fair scheduling: the event loop runs every ready callback and timer, the
\* caller keeps pulling unless it stops, and every probe finishes.
DispatchFairness ==
    /\ WF_vars(\E p \in PoolIds : StartRequests(p))
    /\ WF_vars(FirstPull)
    /\ WF_vars(WaitGet)
    /\ WF_vars(WaitTimeout)
    /\ WF_vars(Resume)
    /\ WF_vars(DoneCallback)
    /\ \A i \in ProbeIds :
         /\ WF_vars(ProbeResult(i) \/ ProbeFault(i))
         /\ WF_vars(ProbeReturn(i))

FairDispatchSpec == DispatchInit /\ [][DispatchNext]_vars /\ DispatchFairness

\* -------------------------------------------------- claims on the dispatch
Count(s, x) == Cardinality({k \in DOMAIN s : s[k] = x})
Pos(s, x) == CHOOSE k \in DOMAIN s : s[k] = x
Probes == DOMAIN probe
AllFinished == \A i \in Probes : probe[i] \in {"returned", "faulted"}
NoFault == \A i \in Probes : probe[i] # "faulted"
RoundOver == pc = "exhausted" /\ AllFinished /\ done_cbs = <<>>
Identity(o) == heap[o].name

\* C1 (as claimed): once a fully consumed round is over, every target whose
\* probe did not raise has exactly one Result in the output sequence, and a
\* target whose probe raised has none, whatever the other probes did.
C1_OneResultPerGoodProbe ==
    RoundOver =>
        \A i \in Probes :
            /\ probe[i] = "returned" => Count(yielded, i) = 1
            /\ probe[i] = "faulted" => Count(yielded, i) = 0

\* C2 (as claimed): the sequence never is Exhausted while a launched probe
\* is still running or while a pushed Result has not been yielded.
C2_ExhaustedOnlyWhenAllDelivered ==
    pc = "exhausted" =>
        /\ \A i \in Probes : probe[i] \notin {"running", "pushed"}
        /\ results = <<>>
        /\ \A k \in DOMAIN pushed : Count(yielded, pushed[k]) = 1

\* C3: when no probe faults and the caller keeps pulling, the sequence ends
\* having yielded exactly one Result per launched target (N in all, none for
\* an empty pool), and the identities yielded are those of the pool's sites.
C3_AllYielded ==
    /\ pc = "exhausted"
    /\ Len(yielded) = Len(lists[pools[gen].sites])
    /\ \A i \in Probes : Count(yielded, i) = 1
    /\ {Identity(launched[yielded[k]]) : k \in DOMAIN yielded}
         = {Identity(o) : o \in Range(lists[pools[gen].sites])}
C3_AllSucceedYieldsAll ==
    [](NoFault /\ pc # "abandoned") => <>C3_AllYielded
C3_Witness ==
    /\ C3_AllYielded
    /\ NoFault
    /\ Len(yielded) = MaxProbes

\* C4: under fair scheduling, with probes that finish and a caller that
\* keeps pulling, the sequence reaches Exhausted; and an expired wait ends
\* the sequence only when the queue is empty and the gather future is done.
C4_Terminates ==
    /\ [](pc # "abandoned") => <>(pc = "exhausted")
    /\ [][(pc = "wait" /\ pc' = "exhausted") => (results = <<>> /\ Done(requests))]_vars
C4_Witness ==
    /\ pc = "exhausted"
    /\ yielded = <<>>
    /\ launched # <<>>
    /\ \E i \in Probes : probe[i] = "faulted"

\* C5: Results come out in completion order: when a Result is yielded,
\* every Result pushed before it has been yielded before it, wherever the
\* two targets stand in the pool.
C5_CompletionOrder ==
    \A j \in DOMAIN yielded :
        \A k \in DOMAIN pushed :
            k < Pos(pushed, yielded[j]) =>
                \E j2 \in DOMAIN yielded : j2 < j /\ yielded[j2] = pushed[k]
C5_Witness ==
    /\ Len(yielded) = 2
    /\ yielded[1] > yielded[2]
    /\ pushed = yielded

\* C6: no pull ends with an error: neither a probe's fault nor the expiry of
\* the polling wait reaches the caller.
C6_NoErrorSurfaces == pc # "raised"
C6_Witness ==
    /\ pc = "yielded"
    /\ \E i \in Probes : probe[i] = "faulted"
    /\ requests = "exception"

\* C7: after the caller stops iterating no probe is cancelled, and under
\* fair scheduling every outstanding probe runs to completion.
C7_ProbesOutliveTheCaller ==
    /\ [](\A i \in Probes : probe[i] # "cancelled")
    /\ (pc = "abandoned") ~> AllFinished
C7_Witness ==
    /\ pc = "abandoned"
    /\ AllFinished
    /\ results # <<>>

\* ------------------------------------------------ claims on the collection
\* C8 (as claimed): constructing a pool without a name (the default, None)
\* succeeds.
C8_DefaultNameConstructs ==
    (last.op = "init" /\ last.name = None) => last.err = "ok"

\* C9: in a pool that rejects duplicates no two sites of the list are equal,
\* whatever construction, add, extend, remove, copy and deepcopy have done;
\* the add of a site equal to a member leaves the list as it was.
C9_Uniqueness ==
    /\ \A p \in DOMAIN pools :
         ~pools[p].allow =>
             \A j, k \in DOMAIN Sites(p) : j # k => ~SiteEq(heap, Sites(p)[j], Sites(p)[k])
    /\ (/\ last.op = "add"
        /\ last.err = "ok"
        /\ ~pools[last.pool].allow
        /\ \E k \in DOMAIN last.before : Identity(last.before[k]) = last.name)
       => Sites(last.pool) = last.before
C9_Witness ==
    /\ last.op = "add"
    /\ last.err = "ok"
    /\ ~pools[last.pool].allow
    /\ ext.active
    /\ last.arg \notin Range(last.before)
    /\ \E k \in DOMAIN last.before : Identity(last.before[k]) = last.name
    /\ Sites(last.pool) = last.before

\* C10: add(target) of a valid target appends it at the end, the earlier
\* elements kept in order and the length one more, except that it changes
\* nothing when duplicates are rejected and an equal target is a member;
\* where duplicates are allowed it always appends.
C10_AddAppendsOrNoOp ==
    (last.op = "add" /\ last.err = "ok") =>
        LET after == Sites(last.pool)
            dup == \E k \in DOMAIN last.before : Identity(last.before[k]) = last.name
        IN IF ~pools[last.pool].allow /\ dup
           THEN after = last.before
           ELSE /\ after = Append(last.before, last.arg)
                /\ Len(after) = Len(last.before) + 1
C10_Witness ==
    /\ last.op = "add"
    /\ last.err = "ok"
    /\ pools[last.pool].allow
    /\ Len(last.before) = 1
    /\ last.arg = last.before[1]
    /\ Sites(last.pool) = <<last.arg, last.arg>>

\* C11: after remove(f) the pool holds exactly the earlier targets that do
\* not satisfy f, in their order, so get(f) on it is empty; get(f) returns
\* the targets that satisfy f, in pool order, and leaves the pool as it was.
C11_RemoveAndGet ==
    /\ last.op = "remove" =>
         /\ Sites(last.pool) = SelectSeq(last.before, LAMBDA o : Identity(o) \notin last.arg)
         /\ \A k \in DOMAIN Sites(last.pool) : Identity(Sites(last.pool)[k]) \notin last.arg
    /\ last.op = "get" =>
         /\ last.ret = SelectSeq(last.before, LAMBDA o : Identity(o) \in last.arg)
         /\ Sites(last.pool) = last.before
C11_Witness ==
    /\ last.op = "remove"
    /\ Len(last.before) = 2
    /\ Len(Sites(last.pool)) = 1
    /\ Identity(last.before[1]) \in last.arg

\* C12: a shallow copy shares the target list with the original: after
\* copy.copy(pool), whatever add and remove are applied through either
\* pool, both pools report the same sequence of targets.
C12_ShallowCopySharesList ==
    (hist.copied = "shallow" /\ Len(pools) = 2) => Sites(1) = Sites(2)

\* C12, the part on names: set_name on one pool leaves the name of the
\* other as it was.
C12_NamesIndependent ==
    [][(last'.op = "set_name" /\ Len(pools) = 2) =>
          \A q \in DOMAIN pools : q # last'.pool => pools'[q].name = pools[q].name]_vars

\* C12, the part the code keeps: until one of the two pools calls remove,
\* both report the same sequence, whatever is added through either.
C12_SharedUntilRemove ==
    (hist.copied = "shallow" /\ Len(pools) = 2 /\ ~hist.removed) => Sites(1) = Sites(2)

\* C13: after copy.deepcopy(pool) the copy has its own list of its own
\* targets, equal in content to the original's, and set_username, add,
\* remove or set_name through one of the two pools changes neither the
\* membership of the other nor any target of the other that has not itself
\* been put into the first; after copy.copy(pool) both pools hold the same
\* target instances, and set_username through one is seen on every target
\* of the other that it also holds (all of them until a remove).
OtherPool(p) == 3 - p
C13_DeepIndependentShallowMirrored ==
    [][/\ last'.op = "deepcopy" =>
            LET a == lists'[pools'[1].sites]
                b == lists'[pools'[2].sites]
            IN /\ pools'[1].sites # pools'[2].sites
               /\ Range(a) \cap Range(b) = {}
               /\ Len(a) = Len(b)
               /\ \A k \in DOMAIN a : heap'[a[k]] = heap'[b[k]]
               /\ \A j, k \in DOMAIN a : (a[j] = a[k]) <=> (b[j] = b[k])
       /\ (hist.copied = "deep" /\ last'.op \in {"set_username", "add", "remove", "set_name"}) =>
            LET q == OtherPool(last'.pool)
            IN /\ lists'[pools'[q].sites] = Sites(q)
               /\ pools'[q] = pools[q]
               /\ \A o \in Range(Sites(q)) \ Range(Sites(last'.pool)) : heap'[o] = heap[o]
       /\ last'.op = "copy" => lists'[pools'[1].sites] = lists'[pools'[2].sites]
       /\ (hist.copied = "shallow" /\ last'.op = "set_username" /\ last'.err = "ok") =>
            LET q == OtherPool(last'.pool)
            IN \A o \in Range(Sites(q)) :
                  (o \in Range(Sites(last'.pool)) \/ ~hist.removed) => heap'[o].user = last'.arg
      ]_vars
C13_Witness ==
    /\ hist.copied = "deep"
    /\ last.op = "set_username"
    /\ last.err = "ok"
    /\ last.pool = 2
    /\ Len(Sites(1)) = 1
    /\ Len(Sites(2)) = 1
    /\ heap[Sites(2)[1]].user = last.arg
    /\ heap[Sites(1)[1]].user # last.arg
C13_WitnessShallow ==
    /\ hist.copied = "shallow"
    /\ last.op = "set_username"
    /\ last.err = "ok"
    /\ last.pool = 2
    /\ Len(Sites(1)) = 2
    /\ \A k \in DOMAIN Sites(1) : heap[Sites(1)[k]].user = "v"

\* C14: when add, extend, set_username or set_name is called with an
\* argument of the wrong kind, the call ends in a TypeError at once and the
\* pool's list of targets, its name and every target's username are as
\* they were before the call.
WrongKind(l) ==
    \/ l.op = "add" /\ l.arg = NotAWebsite
    \/ l.op = "extend" /\ l.err # "ok" /\ l.arg \notin DOMAIN pools
    \/ l.op = "set_username" /\ l.arg = None
    \/ l.op = "set_name" /\ l.name = None
C14_TypeErrorLeavesPoolUnchanged ==
    [][WrongKind(last') =>
          /\ last'.err = "TypeError"
          /\ UNCHANGED <<heap, lists, pools, ext>>]_vars
C14_Witness ==
    /\ last.op = "set_username"
    /\ last.err = "TypeError"
    /\ Len(Sites(last.pool)) = 2
    /\ pools[last.pool].name = "pool"

\* C15: extend(other, deep) takes the targets of the other pool one after
\* the other in their order, none skipped, and gives each to add under the
\* pool's duplicate policy: a rejected one leaves the list as it was, an
\* accepted one is appended. With deep copying the appended target is a new
\* object, equal in content to the source's and a member of no other list;
\* without, it is the source's own instance. No existing target is changed.
C15_ExtendImports ==
    [][/\ (~ext.active /\ ext'.active) => ext'.i = 1
       /\ (ext.active /\ ext'.active) =>
            LET site == lists[ext.src][ext.i]
                before == Sites(ext.dst)
                after == lists'[pools'[ext.dst].sites]
                dup == \E k \in DOMAIN before : Identity(before[k]) = Identity(site)
            IN /\ ext'.i = ext.i + 1
               /\ ext.i <= Len(lists[ext.src])
               /\ \A o \in DOMAIN heap : o \in DOMAIN heap' /\ heap'[o] = heap[o]
               /\ IF ~pools[ext.dst].allow /\ dup
                  THEN after = before
                  ELSE \E w \in DOMAIN heap' :
                         /\ after = Append(before, w)
                         /\ heap'[w] = heap[site]
                         /\ IF ext.deep
                            THEN /\ w \notin DOMAIN heap
                                 /\ \A l \in ListIds : l # pools[ext.dst].sites => w \notin Range(lists'[l])
                            ELSE w = site
       /\ (ext.active /\ ~ext'.active) => ext.i = Len(lists[ext.src]) + 1
      ]_vars
C15_Witness ==
    /\ ext.active
    /\ ext.deep
    /\ ext.src # pools[ext.dst].sites
    /\ ext.i = 2
    /\ last.op = "add"
    /\ last.arg = Len(heap)
    /\ last.arg \notin Range(lists[ext.src])
    /\ Sites(ext.dst) = Append(last.before, last.arg)

\* C16: set_username with a valid value gives that value to every target
\* that is in the pool when it is called and changes no other target, and
\* leaves the pool's membership and order as they were; add changes no
\* target's username, so a target added later keeps its own.
C16_SetUsernameOfCurrentTargets ==
    [][/\ (last'.op = "set_username" /\ last'.err = "ok") =>
            /\ DOMAIN heap' = DOMAIN heap
            /\ \A o \in DOMAIN heap :
                  /\ heap'[o].name = heap[o].name
                  /\ heap'[o].user = IF o \in Range(Sites(last'.pool)) THEN last'.arg ELSE heap[o].user
            /\ UNCHANGED <<lists, pools>>
       /\ last'.op = "add" => \A o \in DOMAIN heap : o \in DOMAIN heap' /\ heap'[o] = heap[o]
      ]_vars
C16_Witness ==
    /\ last.op = "set_username"
    /\ last.err = "ok"
    /\ Len(Sites(last.pool)) = 1
    /\ heap[Sites(last.pool)[1]].user = last.arg
    /\ \E o \in DOMAIN heap : o \notin Range(Sites(last.pool)) /\ heap[o].user # last.arg

\* C17: the probes launched by a dispatch round are those of the pool's
\* list as it is when start_requests is called, one probe per target,
\* started once; adding or removing targets after the call, before the
\* first pull or while results are consumed, does not change them.
C17_LaunchedAtInvocation ==
    [][/\ (pc = "idle" /\ pc' # "idle") =>
            /\ launched' = hist.atcall
            /\ DOMAIN probe' = DOMAIN launched'
       /\ pc \notin {"none", "idle"} =>
            /\ launched' = launched
            /\ DOMAIN probe' = DOMAIN probe
            /\ \A i \in DOMAIN probe : probe[i] # "running" => probe'[i] # "running"
      ]_vars

\* C17 as the code has it: the probes launched are those of the pool's list
\* as it is at the first pull (which is the list at the call when the pool
\* was not changed in between), one probe per target, started once; adding
\* or removing targets after the first pull does not change them.
C17_LaunchedAtFirstPull ==
    [][/\ (pc = "idle" /\ pc' # "idle") =>
            /\ launched' = Sites(gen)
            /\ Sites(gen) = hist.atcall => launched' = hist.atcall
            /\ DOMAIN probe' = DOMAIN launched'
            /\ \A i \in DOMAIN probe' : probe'[i] = "running"
       /\ pc \notin {"none", "idle"} =>
            /\ launched' = launched
            /\ DOMAIN probe' = DOMAIN probe
            /\ \A i \in DOMAIN probe : probe[i] # "running" => probe'[i] # "running"
      ]_vars
C17_Witness ==
    /\ hist.moved
    /\ Len(launched) = 2
    /\ Len(yielded) >= 1
    /\ Sites(gen) # launched
    /\ last.op = "remove"

\* C18: extend ends, and imports at most as many targets as the source
\* pool held when extend was called, also when the source is the pool
\* itself or a shallow copy sharing its list, under either duplicate
\* policy: the loop takes no more turns than the source held targets, and
\* once it has taken that many none is left to take.
C18_ExtendEndsAfterSource ==
    ext.active =>
        /\ ext.i <= ext.n + 1
        /\ ext.i = ext.n + 1 => ext.i > Len(lists[ext.src])

\* C19: two dispatch rounds on one pool, at the same time or one after the
\* other, are isolated: a Result pushed by a probe of one round is queued
\* for and yielded by that round only, at most once, and a round all of
\* whose probes succeeded has, once exhausted, yielded exactly one Result
\* per target.
ResultsOfRound(r, pr) == {ResultOf(r, i) : i \in DOMAIN pr}
OneEach(ys, r, pr) ==
    /\ Len(ys) = Len(pr)
    /\ \A i \in DOMAIN pr : Count(ys, ResultOf(r, i)) = 1
C19_RoundsIsolated ==
    /\ Range(yielded) \cup Range(results) \subseteq ResultsOfRound(1, probe)
    /\ Range(second.yielded) \cup Range(second.results) \subseteq ResultsOfRound(2, second.probe)
    /\ \A x \in Range(yielded) : Count(yielded, x) = 1
    /\ \A x \in Range(second.yielded) : Count(second.yielded, x) = 1
    /\ (pc = "exhausted" /\ \A i \in DOMAIN probe : probe[i] = "returned") =>
          OneEach(yielded, 1, probe)
    /\ (second.pc = "exhausted" /\ \A i \in DOMAIN second.probe : second.probe[i] = "returned") =>
          OneEach(second.yielded, 2, second.probe)
C19_Witness ==
    /\ pc = "yielded"
    /\ second.pc = "exhausted"
    /\ Len(launched) = MaxRoundSites
    /\ Len(second.yielded) = MaxRoundSites
    /\ Len(yielded) = 1
    /\ \E i \in DOMAIN probe : probe[i] = "pushed"

====
